---- MODULE Spec2Model ----
(***************************************************************************)
(* Model of src/common/db_bridge.h: the transaction broker                 *)
(* (db_bridge_base), the per-table accessor (key_value_accessor_base) with *)
(* its size cache, and the storage adapter and the exclusive_access_helper *)
(* they are built on.                                                      *)
(*                                                                         *)
(* Every public call is one atomic action performed by a calling thread.   *)
(* The adapter (i_db_adapter is a pure interface) and the                  *)
(* exclusive_access_helper (epee) are modelled from the specification.     *)
(***************************************************************************)
EXTENDS Integers, Sequences, FiniteSets, TLC

\* ------------------------------------------------------------------ bounds
NumThreads == 2
NumAccessors == 2
NumKeys == 1
MaxTid == 0
MaxByte == 0

Threads == 1..NumThreads
\* an accessor is identified by its address; std::set iterates by address
Accessors == 1..NumAccessors
Keys == 1..NumKeys
Tables == 0..MaxTid
\* values of the fixed-layout type stored through set_pod_object
PodValues == 0..MaxByte

\* the raw helpers on their own: tables, keys, object bytes, and the longest
\* self-describing object
MaxPodTid == 1

NumPodKeys == 2

MaxPodByte == 1

MaxSerLen == 1

PodTables == 0..MaxPodTid

PodKeys == 1..NumPodKeys

PodObjs == 0..MaxPodByte

SerObjs == UNION {[1..n -> PodObjs] : n \in 0..MaxSerLen}

VARIABLES
  adapter,                          \* the i_db_adapter behind m_db_adapter_ptr
  m_attached_container_receivers,   \* db_bridge_base: the attached set
  acc,                              \* the fields of each live accessor
  last,                             \* the call that was made last, and its outcome
  quiet,                            \* what ended the last transaction, until the next mutation
  m_db_opened,                      \* db_bridge_base: what is_open() reports
  live,                             \* the accessors constructed and not yet destroyed
  attach_order,                     \* the attached receivers in the order they were attached
  m_attached_container_receivers_lock, \* the thread holding the broker's lock, or 0
  fan,                              \* each thread's notification fan-out in progress
  late,                             \* a receiver was notified while not attached
  written                           \* per table and key: the object set_pod_object stored last, if it still stands

\* what the calls on transactions and tables leave alone
rest == <<m_db_opened, live, attach_order, m_attached_container_receivers_lock, fan, late,
         written>>

vars == <<adapter, m_attached_container_receivers, acc, last, quiet, rest>>

\* ------------------------------------------------------------ i_db_adapter
\* A table is a function from the keys it holds to the stored buffers.
EmptyTable == [k \in {} |-> <<>>]

TableSet(tbl, k, buf) == [x \in (DOMAIN tbl) \cup {k} |-> IF x = k THEN buf ELSE tbl[x]]

TableErase(tbl, k) == [x \in (DOMAIN tbl) \ {k} |-> tbl[x]]

\* tx[t]: the transaction thread t holds: "none", "ro" or "rw"
WriterOpen(db) == \E t \in Threads : db.tx[t] = "rw"

\* the tables as thread t sees them: the writer sees its uncommitted writes
View(db, t) == IF db.tx[t] = "rw" THEN db.working ELSE db.committed

\* a write by t is applied inside t's write transaction, or on its own when
\* no write transaction is open; a reader, or a thread beside the writer, is refused
CanWrite(db, t) == db.tx[t] = "rw" \/ (db.tx[t] = "none" /\ ~WriterOpen(db))

ApplyWrite(db, t, tid, tbl) ==
  IF db.tx[t] = "rw"
    THEN [db EXCEPT !.working[tid] = tbl]
    ELSE [db EXCEPT !.working[tid] = tbl, !.committed[tid] = tbl]

\* begin_transaction(read_only): ok is the engine's outcome
CanBegin(db, t, ro) == db.tx[t] = "none" /\ (ro \/ ~WriterOpen(db))

adapter_begin_transaction(db, t, ro, ok) ==
  IF ok /\ CanBegin(db, t, ro)
    THEN [db |-> [db EXCEPT !.tx[t] = IF ro THEN "ro" ELSE "rw"], r |-> TRUE]
    ELSE [db |-> db, r |-> FALSE]

adapter_commit_transaction(db, t, ok) ==
  IF ok /\ db.tx[t] # "none"
    THEN [db |-> [db EXCEPT !.tx[t] = "none",
                            !.committed = IF db.tx[t] = "rw" THEN db.working ELSE @],
          r |-> TRUE]
    ELSE [db |-> db, r |-> FALSE]

\* abort discards every write since begin_transaction
adapter_abort_transaction(db, t) ==
  [db EXCEPT !.tx[t] = "none",
             !.working = IF db.tx[t] = "rw" THEN db.committed ELSE @]

adapter_get_table_size(db, t, tid) == Cardinality(DOMAIN View(db, t)[tid])

\* get: [found, buffer]
adapter_get(db, t, tid, k) ==
  IF k \in DOMAIN View(db, t)[tid]
    THEN [r |-> TRUE, buffer |-> View(db, t)[tid][k]]
    ELSE [r |-> FALSE, buffer |-> <<>>]

adapter_set(db, t, tid, k, buf, ok) ==
  IF ok /\ CanWrite(db, t)
    THEN [db |-> ApplyWrite(db, t, tid, TableSet(View(db, t)[tid], k, buf)), r |-> TRUE]
    ELSE [db |-> db, r |-> FALSE]

adapter_erase(db, t, tid, k, ok) ==
  IF ok /\ CanWrite(db, t) /\ k \in DOMAIN View(db, t)[tid]
    THEN [db |-> ApplyWrite(db, t, tid, TableErase(View(db, t)[tid], k)), r |-> TRUE]
    ELSE [db |-> db, r |-> FALSE]

adapter_clear_table(db, t, tid, ok) ==
  IF ok /\ CanWrite(db, t)
    THEN [db |-> ApplyWrite(db, t, tid, EmptyTable), r |-> TRUE]
    ELSE [db |-> db, r |-> FALSE]

\* open_table: the same name always yields the same id
adapter_open_table(name, ok) == [r |-> ok, tid |-> name]

\* -------------------------------------------------- exclusive_access_helper
\* the helper's state is the set of threads in exclusive mode
set_exclusive_mode_for_this_thread(runner, t) == runner \cup {t}

clear_exclusive_mode_for_this_thread(runner, t) == runner \ {t}

\* the flag run() hands to its callback
exclusive_mode(runner, t) == t \in runner

\* run_exclusively() runs its callback: cb is the callback's effect
run_exclusively(cb) == cb

\* ---------------------------------------------------------- db_bridge_base
\* the receivers of a set in the order std::set iterates them (by address)
RECURSIVE InOrderDescending(_)
InOrderDescending(S) ==
  IF S = {} THEN <<>>
  ELSE LET m == CHOOSE x \in S : \A y \in S : x >= y
       IN <<m>> \o InOrderDescending(S \ {m})

RECURSIVE InOrder(_)
InOrder(S) ==
  IF S = {} THEN <<>>
  ELSE LET m == CHOOSE x \in S : \A y \in S : x <= y
       IN <<m>> \o InOrder(S \ {m})

\* ------------------------------------------------- key_value_accessor_base
\* the accessor as its constructor leaves it
NewAccessor ==
  [m_tid |-> 0, m_cached_size |-> 0, m_cached_size_is_valid |-> FALSE,
   m_exclusive_runner |-> {}]

on_write_transaction_begin(c, t) ==
  [c EXCEPT !.m_exclusive_runner = set_exclusive_mode_for_this_thread(@, t)]

on_write_transaction_abort(c, t) ==
  [c EXCEPT !.m_exclusive_runner = clear_exclusive_mode_for_this_thread(@, t)]

on_write_transaction_commit(c, t) ==
  [c EXCEPT !.m_exclusive_runner = clear_exclusive_mode_for_this_thread(@, t)]

\* ------------------------------------------- db_bridge_base: transactions
\* Each returns the adapter and the accessors after the call, the result,
\* the number of adapter calls made and the receivers notified, in order.
begin_db_transaction_skip_on_failure(db, recv, accs, t, ro, ok) ==
  LET b == adapter_begin_transaction(db, t, ro, ok)
  IN [db |-> b.db,
      accs |-> [a \in Accessors |->
                 IF a \in recv /\ b.r THEN on_write_transaction_begin(accs[a], t) ELSE accs[a]],
      r |-> b.r, calls |-> 1,
      notified |-> IF b.r THEN InOrder(recv) ELSE <<>>]

begin_db_transaction(db, recv, accs, t, ro, ok) ==
  LET b == adapter_begin_transaction(db, t, ro, ok)
  IN [db |-> b.db,
      accs |-> [a \in Accessors |->
                 IF a \in recv THEN on_write_transaction_begin(accs[a], t) ELSE accs[a]],
      r |-> b.r, calls |-> 1,
      notified |-> InOrder(recv)]

commit_db_transaction_notify_always(db, recv, accs, t, ok) ==
  LET b == adapter_commit_transaction(db, t, ok)
  IN [db |-> b.db,
      accs |-> [a \in Accessors |->
                 IF a \in recv THEN on_write_transaction_commit(accs[a], t) ELSE accs[a]],
      status |-> IF b.r THEN "ok" ELSE "throw", calls |-> 1,
      notified |-> InOrder(recv)]

commit_db_transaction(db, recv, accs, t, ok) ==
  LET b == adapter_commit_transaction(db, t, ok)
  IN IF ~b.r
       THEN [db |-> b.db, accs |-> accs, status |-> "throw", calls |-> 1, notified |-> <<>>]
       ELSE [db |-> b.db,
             accs |-> [a \in Accessors |->
                        IF a \in recv THEN on_write_transaction_commit(accs[a], t) ELSE accs[a]],
             status |-> "ok", calls |-> 1,
             notified |-> InOrder(recv)]

\* what a call did, in order: an adapter call, a notification of receiver a,
\* an accessor's own invalidation of its cache
AdapterCall(name) == <<[e |-> name, a |-> 0]>>

Notifications(recv) ==
  [i \in 1..Cardinality(recv) |-> [e |-> "notify", a |-> InOrder(recv)[i]]]

abort_db_transaction_notify_first(db, recv, accs, t) ==
  [db |-> adapter_abort_transaction(db, t),
   accs |-> [a \in Accessors |->
              IF a \in recv THEN on_write_transaction_abort(accs[a], t) ELSE accs[a]],
   calls |-> 1,
   notified |-> InOrder(recv),
   events |-> Notifications(recv) \o AdapterCall("abort_transaction")]

abort_db_transaction(db, recv, accs, t) ==
  [db |-> adapter_abort_transaction(db, t),
   accs |-> [a \in Accessors |->
              IF a \in recv THEN on_write_transaction_abort(accs[a], t) ELSE accs[a]],
   calls |-> 1,
   notified |-> InOrder(recv),
   events |-> AdapterCall("abort_transaction") \o Notifications(recv)]

dbb_clear(db, t, tid, ok) == adapter_clear_table(db, t, tid, ok)

dbb_size(db, t, tid) == adapter_get_table_size(db, t, tid)

dbb_erase(db, t, tid, k, ok) == adapter_erase(db, t, tid, k, ok)

\* a fixed-layout object is stored as its bytes
PodSize == 1

pod_bytes(obj) == <<obj>>

get_pod_object_without_size_check(db, t, tid, k) ==
  LET g == adapter_get(db, t, tid, k)
  IN IF ~g.r THEN [r |-> FALSE, set |-> FALSE, obj |-> 0]
     ELSE [r |-> TRUE, set |-> TRUE, obj |-> g.buffer[1]]

get_pod_object(db, t, tid, k) ==
  LET g == adapter_get(db, t, tid, k)
  IN IF ~g.r THEN [r |-> FALSE, set |-> FALSE, obj |-> 0]
     ELSE IF PodSize # Len(g.buffer) THEN [r |-> FALSE, set |-> FALSE, obj |-> 0]
     ELSE [r |-> TRUE, set |-> TRUE, obj |-> g.buffer[1]]

set_pod_object_with_wrong_size(db, t, tid, k, obj, ok) ==
  adapter_set(db, t, tid, k, pod_bytes(obj) \o <<0>>, ok)

set_pod_object(db, t, tid, k, obj, ok) == adapter_set(db, t, tid, k, pod_bytes(obj), ok)

attach_container_receiver_unchecked(recv, a) ==
  [recv |-> recv \cup {a}, status |-> "ok"]

attach_container_receiver(recv, a) ==
  [recv |-> recv \cup {a}, status |-> IF a \in recv THEN "throw" ELSE "ok"]

detach_container_receiver(recv, a) ==
  [recv |-> recv \ {a}, status |-> IF a \in recv THEN "ok" ELSE "throw"]

\* ------------------------------------------------- pod_object_value_helper
\* get() is not implemented: it yields nullptr whatever the table holds
helper_get(db, t, tid, k) == [found |-> FALSE, obj |-> 0]

\* set() is not implemented: it leaves the table as it is
helper_set(db, t, tid, k, v) == db

\* --------------------------------------- key_value_accessor_base: the calls
\* accessor calls take the accessor id a; the broker notifies every receiver
begin_transaction(db, recv, accs, t, ro, ok) ==
  begin_db_transaction(db, recv, accs, t, ro, ok)

commit_transaction_without_catch(db, recv, accs, a, t, ok) ==
  commit_db_transaction(db, recv, accs, t, ok)

commit_transaction(db, recv, accs, a, t, ok) ==
  LET c == commit_db_transaction(db, recv, accs, t, ok)
  IN IF c.status = "throw"
       THEN [c EXCEPT !.accs[a].m_cached_size_is_valid = FALSE]
       ELSE c

abort_transaction(db, recv, accs, a, t) ==
  LET b == abort_db_transaction(db, recv,
                                [accs EXCEPT ![a].m_cached_size_is_valid = FALSE], t)
  IN [b EXCEPT !.events = <<[e |-> "invalidate", a |-> a]>> \o @]

init(c, name, ok) ==
  LET o == adapter_open_table(name, ok)
  IN [c |-> IF o.r THEN [c EXCEPT !.m_tid = o.tid] ELSE c, r |-> o.r]

set_keeps_cache(c, db, t, k, v) ==
  [c |-> c, db |-> helper_set(db, t, c.m_tid, k, v)]

set(c, db, t, k, v) ==
  [c |-> [c EXCEPT !.m_cached_size_is_valid = FALSE],
   db |-> helper_set(db, t, c.m_tid, k, v)]

get(c, db, t, k) == helper_get(db, t, c.m_tid, k)

\* size(): ret is the value returned, calls the number of adapter queries,
\* touched whether the cached size or its validity flag was read or written
size_trusts_any_thread(c, db, t) ==
  IF c.m_cached_size_is_valid
    THEN [c |-> c, ret |-> c.m_cached_size, calls |-> 0, touched |-> TRUE]
    ELSE LET sz == dbb_size(db, t, c.m_tid)
         IN [c |-> [c EXCEPT !.m_cached_size = sz, !.m_cached_size_is_valid = TRUE],
             ret |-> sz, calls |-> 1, touched |-> TRUE]

size(c, db, t) ==
  LET excl == exclusive_mode(c.m_exclusive_runner, t)
  IN IF excl /\ c.m_cached_size_is_valid
       THEN [c |-> c, ret |-> c.m_cached_size, calls |-> 0, touched |-> TRUE]
       ELSE LET sz == dbb_size(db, t, c.m_tid)
            IN IF excl
                 THEN [c |-> [c EXCEPT !.m_cached_size = sz, !.m_cached_size_is_valid = TRUE],
                       ret |-> sz, calls |-> 1, touched |-> TRUE]
                 ELSE [c |-> c, ret |-> sz, calls |-> 1, touched |-> FALSE]

size_no_cache(c, db, t) == dbb_size(db, t, c.m_tid)

clear(c, db, t, ok) ==
  [db |-> dbb_clear(db, t, c.m_tid, ok).db,
   c |-> run_exclusively([c EXCEPT !.m_cached_size_is_valid = FALSE]),
   r |-> TRUE]

erase_validate(c, db, t, k, ok) ==
  LET res_ptr == get(c, db, t, k)
  IN [db |-> dbb_erase(db, t, c.m_tid, k, ok).db,
      c |-> run_exclusively([c EXCEPT !.m_cached_size_is_valid = FALSE]),
      r |-> res_ptr.found]

erase(c, db, t, k, ok) ==
  [db |-> dbb_erase(db, t, c.m_tid, k, ok).db,
   c |-> run_exclusively([c EXCEPT !.m_cached_size_is_valid = FALSE])]

\* ------------------------------------------------------------ the program
\* the last call: which one, by which thread, on which accessor, and what it
\* gave back; a field a call does not use keeps its value of NoCall
NoCall ==
  [op |-> "none", t |-> 0, a |-> 0, status |-> "ok", r |-> FALSE, ret |-> 0,
   calls |-> 0, notified |-> <<>>, touched |-> FALSE,
   tid |-> 0, k |-> 0, obj |-> 0, before |-> 0, adapter_r |-> FALSE, events |-> <<>>]

\* a thread's call on the attached set: pc is "idle", "wait" (at the lock) or
\* "locked"; kind the call; arg the receiver of an attach or detach; at_lock the
\* attached set as it was when the lock was taken; cur the receiver the loop has
\* read and not yet notified; done the receivers notified so far
NoFan ==
  [pc |-> "idle", kind |-> "none", arg |-> 0, at_lock |-> {}, cur |-> 0, done |-> <<>>]

\* the variables the calls on transactions and tables leave alone, at the start
InitRest ==
  /\ m_db_opened = FALSE
  /\ m_attached_container_receivers_lock = 0
  /\ fan = [t \in Threads |-> NoFan]
  /\ late = FALSE
  /\ written = [tid \in PodTables |-> [k \in PodKeys |-> {}]]

\* the broker and the accessors as their constructors leave them: every
\* accessor attached (key_value_accessor_base's constructor attaches it)
Init ==
  /\ adapter = [committed |-> [tid \in Tables |-> EmptyTable],
                working |-> [tid \in Tables |-> EmptyTable],
                tx |-> [t \in Threads |-> "none"]]
  /\ m_attached_container_receivers = Accessors
  /\ acc = [a \in Accessors |-> NewAccessor]
  /\ last = NoCall
  /\ quiet = "none"
  /\ live = Accessors
  /\ attach_order = InOrder(Accessors)
  /\ InitRest

AccInit(a, name, ok) ==
  /\ a \in m_attached_container_receivers
  /\ \E i \in {init(acc[a], name, ok)} :
        /\ acc' = [acc EXCEPT ![a] = i.c]
        /\ last' = [NoCall EXCEPT !.op = "init", !.a = a, !.r = i.r]
  /\ UNCHANGED <<adapter, m_attached_container_receivers, quiet>>
  /\ UNCHANGED rest

BrokerBegin(t, ro, ok) ==
  /\ \E b \in {begin_db_transaction(adapter, m_attached_container_receivers, acc, t, ro, ok)} :
        /\ adapter' = b.db
        /\ acc' = b.accs
        /\ last' = [NoCall EXCEPT !.op = "begin_db_transaction", !.t = t, !.r = b.r,
                                  !.calls = b.calls, !.notified = b.notified]
  /\ UNCHANGED <<m_attached_container_receivers, quiet>>
  /\ UNCHANGED rest

AccBegin(t, a, ro, ok) ==
  /\ a \in m_attached_container_receivers
  /\ \E b \in {begin_transaction(adapter, m_attached_container_receivers, acc, t, ro, ok)} :
        /\ adapter' = b.db
        /\ acc' = b.accs
        /\ last' = [NoCall EXCEPT !.op = "begin_transaction", !.t = t, !.r = b.r,
                                  !.calls = b.calls, !.notified = b.notified]
  /\ UNCHANGED <<m_attached_container_receivers, quiet>>
  /\ UNCHANGED rest

\* a commit that ends a write transaction starts a quiet period
AfterCommit(t, status) ==
  IF status = "ok" /\ adapter.tx[t] = "rw" THEN "commit" ELSE quiet

BrokerCommit(t, ok) ==
  /\ \E c \in {commit_db_transaction(adapter, m_attached_container_receivers, acc, t, ok)} :
        /\ adapter' = c.db
        /\ acc' = c.accs
        /\ last' = [NoCall EXCEPT !.op = "commit_db_transaction", !.t = t,
                                  !.status = c.status, !.calls = c.calls,
                                  !.notified = c.notified]
        /\ quiet' = AfterCommit(t, c.status)
  /\ UNCHANGED m_attached_container_receivers
  /\ UNCHANGED rest

AccCommit(t, a, ok) ==
  /\ a \in m_attached_container_receivers
  /\ \E c \in {commit_transaction(adapter, m_attached_container_receivers, acc, a, t, ok)} :
        /\ adapter' = c.db
        /\ acc' = c.accs
        /\ last' = [NoCall EXCEPT !.op = "commit_transaction", !.t = t, !.a = a,
                                  !.status = c.status, !.calls = c.calls,
                                  !.notified = c.notified]
        /\ quiet' = AfterCommit(t, c.status)
  /\ UNCHANGED m_attached_container_receivers
  /\ UNCHANGED rest

\* an abort that ends a write transaction starts a quiet period
AfterAbort(t) == IF adapter.tx[t] = "rw" THEN "abort" ELSE quiet

BrokerAbort(t) ==
  /\ \E b \in {abort_db_transaction(adapter, m_attached_container_receivers, acc, t)} :
        /\ adapter' = b.db
        /\ acc' = b.accs
        /\ last' = [NoCall EXCEPT !.op = "abort_db_transaction", !.t = t,
                                  !.calls = b.calls, !.notified = b.notified,
                                  !.events = b.events]
  /\ quiet' = AfterAbort(t)
  /\ UNCHANGED m_attached_container_receivers
  /\ UNCHANGED rest

AccAbort(t, a) ==
  /\ a \in m_attached_container_receivers
  /\ \E b \in {abort_transaction(adapter, m_attached_container_receivers, acc, a, t)} :
        /\ adapter' = b.db
        /\ acc' = b.accs
        /\ last' = [NoCall EXCEPT !.op = "abort_transaction", !.t = t, !.a = a,
                                  !.calls = b.calls, !.notified = b.notified,
                                  !.events = b.events]
  /\ quiet' = AfterAbort(t)
  /\ UNCHANGED m_attached_container_receivers
  /\ UNCHANGED rest

AccSet(t, a, k, v) ==
  /\ a \in m_attached_container_receivers
  /\ \E s \in {set(acc[a], adapter, t, k, v)} :
        /\ adapter' = s.db
        /\ acc' = [acc EXCEPT ![a] = s.c]
  /\ last' = [NoCall EXCEPT !.op = "set", !.a = a]
  /\ quiet' = "none"
  /\ UNCHANGED m_attached_container_receivers
  /\ UNCHANGED rest

AccGet(t, a, k) ==
  /\ a \in m_attached_container_receivers
  /\ last' = [NoCall EXCEPT !.op = "get", !.r = get(acc[a], adapter, t, k).found]
  /\ UNCHANGED <<adapter, m_attached_container_receivers, acc, quiet>>
  /\ UNCHANGED rest

AccSize(t, a) ==
  /\ a \in m_attached_container_receivers
  /\ \E s \in {size(acc[a], adapter, t)} :
        /\ acc' = [acc EXCEPT ![a] = s.c]
        /\ last' = [NoCall EXCEPT !.op = "size", !.t = t, !.a = a, !.ret = s.ret,
                                  !.calls = s.calls, !.touched = s.touched]
  /\ UNCHANGED <<adapter, m_attached_container_receivers, quiet>>
  /\ UNCHANGED rest

AccSizeNoCache(t, a) ==
  /\ a \in m_attached_container_receivers
  /\ last' = [NoCall EXCEPT !.op = "size_no_cache",
                            !.ret = size_no_cache(acc[a], adapter, t), !.calls = 1]
  /\ UNCHANGED <<adapter, m_attached_container_receivers, acc, quiet>>
  /\ UNCHANGED rest

AccClear(t, a, ok) ==
  /\ a \in m_attached_container_receivers
  /\ \E c \in {clear(acc[a], adapter, t, ok)} :
        /\ adapter' = c.db
        /\ acc' = [acc EXCEPT ![a] = c.c]
        /\ last' = [NoCall EXCEPT !.op = "clear", !.a = a, !.r = c.r]
  /\ quiet' = "none"
  /\ UNCHANGED m_attached_container_receivers
  /\ UNCHANGED rest

AccEraseValidate(t, a, k, ok) ==
  /\ a \in m_attached_container_receivers
  /\ \E e \in {erase_validate(acc[a], adapter, t, k, ok)} :
        /\ adapter' = e.db
        /\ acc' = [acc EXCEPT ![a] = e.c]
        /\ last' = [NoCall EXCEPT !.op = "erase_validate", !.t = t, !.a = a,
                                  !.k = k, !.r = e.r]
  /\ quiet' = "none"
  /\ UNCHANGED m_attached_container_receivers
  /\ UNCHANGED rest

AccErase(t, a, k, ok) ==
  /\ a \in m_attached_container_receivers
  /\ \E e \in {erase(acc[a], adapter, t, k, ok)} :
        /\ adapter' = e.db
        /\ acc' = [acc EXCEPT ![a] = e.c]
  /\ last' = [NoCall EXCEPT !.op = "erase", !.a = a]
  /\ quiet' = "none"
  /\ UNCHANGED m_attached_container_receivers
  /\ UNCHANGED rest

\* the broker's raw helpers, called directly
BrokerSetPod(t, tid, k, obj, ok) ==
  /\ \E s \in {set_pod_object(adapter, t, tid, k, obj, ok)} :
        /\ adapter' = s.db
        /\ last' = [NoCall EXCEPT !.op = "set_pod_object", !.r = s.r]
  /\ quiet' = "none"
  /\ UNCHANGED <<m_attached_container_receivers, acc>>
  /\ UNCHANGED rest

BrokerGetPod(t, tid, k) ==
  /\ \E g \in {get_pod_object(adapter, t, tid, k)} :
        last' = [NoCall EXCEPT !.op = "get_pod_object", !.r = g.r, !.ret = g.obj]
  /\ UNCHANGED <<adapter, m_attached_container_receivers, acc, quiet>>
  /\ UNCHANGED rest

BrokerErase(t, tid, k, ok) ==
  /\ \E e \in {dbb_erase(adapter, t, tid, k, ok)} :
        /\ adapter' = e.db
        /\ last' = [NoCall EXCEPT !.op = "dbb_erase", !.r = e.r]
  /\ quiet' = "none"
  /\ UNCHANGED <<m_attached_container_receivers, acc>>
  /\ UNCHANGED rest

BrokerClear(t, tid, ok) ==
  /\ \E c \in {dbb_clear(adapter, t, tid, ok)} :
        /\ adapter' = c.db
        /\ last' = [NoCall EXCEPT !.op = "dbb_clear", !.r = c.r]
  /\ quiet' = "none"
  /\ UNCHANGED <<m_attached_container_receivers, acc>>
  /\ UNCHANGED rest



Next ==
  \/ \E a \in Accessors, name \in Tables, ok \in BOOLEAN : AccInit(a, name, ok)
  \/ \E t \in Threads, ro \in BOOLEAN, ok \in BOOLEAN : BrokerBegin(t, ro, ok)
  \/ \E t \in Threads, a \in Accessors, ro \in BOOLEAN, ok \in BOOLEAN : AccBegin(t, a, ro, ok)
  \/ \E t \in Threads, ok \in BOOLEAN : BrokerCommit(t, ok)
  \/ \E t \in Threads, a \in Accessors, ok \in BOOLEAN : AccCommit(t, a, ok)
  \/ \E t \in Threads : BrokerAbort(t)
  \/ \E t \in Threads, a \in Accessors : AccAbort(t, a)
  \/ \E t \in Threads, a \in Accessors, k \in Keys, v \in PodValues : AccSet(t, a, k, v)
  \/ \E t \in Threads, a \in Accessors, k \in Keys : AccGet(t, a, k)
  \/ \E t \in Threads, a \in Accessors : AccSize(t, a)
  \/ \E t \in Threads, a \in Accessors : AccSizeNoCache(t, a)
  \/ \E t \in Threads, a \in Accessors, ok \in BOOLEAN : AccClear(t, a, ok)
  \/ \E t \in Threads, a \in Accessors, k \in Keys, ok \in BOOLEAN : AccEraseValidate(t, a, k, ok)
  \/ \E t \in Threads, a \in Accessors, k \in Keys, ok \in BOOLEAN : AccErase(t, a, k, ok)
  \/ \E t \in Threads, tid \in Tables, k \in Keys, obj \in PodValues, ok \in BOOLEAN :
       BrokerSetPod(t, tid, k, obj, ok)
  \/ \E t \in Threads, tid \in Tables, k \in Keys : BrokerGetPod(t, tid, k)
  \/ \E t \in Threads, tid \in Tables, k \in Keys, ok \in BOOLEAN : BrokerErase(t, tid, k, ok)
  \/ \E t \in Threads, tid \in Tables, ok \in BOOLEAN : BrokerClear(t, tid, ok)

Spec == Init /\ [][Next]_vars

\* ------------------------------------- db_bridge_base: raw helpers, open/close
\* the self-describing codec: the object's length, then its bytes
t_serializable_object_to_blob(o) == <<Len(o)>> \o o

set_serializable_object(db, t, tid, k, o, ok) ==
  adapter_set(db, t, tid, k, t_serializable_object_to_blob(o), ok)

\* the adapter's open and close: ok is the engine's outcome
adapter_open(ok) == ok

adapter_close(ok) == ok

dbb_open(opened, ok) ==
  LET r == adapter_open(ok) IN [m_db_opened |-> r, r |-> r]

dbb_close_keeps_open_on_failure(opened, ok) ==
  LET r == adapter_close(ok) IN [m_db_opened |-> IF r THEN FALSE ELSE opened, r |-> r]

dbb_close(opened, ok) == [m_db_opened |-> FALSE, r |-> adapter_close(ok)]

is_open(opened) == opened

InitPod ==
  /\ adapter = [committed |-> [tid \in PodTables |-> EmptyTable],
                working |-> [tid \in PodTables |-> EmptyTable],
                tx |-> [t \in Threads |-> "none"]]
  /\ m_attached_container_receivers = Accessors
  /\ acc = [a \in Accessors |-> NewAccessor]
  /\ last = NoCall
  /\ quiet = "none"
  /\ live = Accessors
  /\ attach_order = InOrder(Accessors)
  /\ InitRest

\* what the raw helpers and open/close leave alone
restPod == <<m_attached_container_receivers, acc, quiet, live, attach_order,
            m_attached_container_receivers_lock, fan, late>>

PodSet(t, tid, k, obj, ok) ==
  /\ \E s \in {set_pod_object(adapter, t, tid, k, obj, ok)} :
        /\ adapter' = s.db
        /\ last' = [NoCall EXCEPT !.op = "set_pod_object", !.tid = tid, !.k = k,
                                  !.obj = obj, !.r = s.r]
        /\ written' = IF s.r THEN [written EXCEPT ![tid][k] = {obj}] ELSE written
  /\ UNCHANGED <<m_db_opened, restPod>>

\* before is the caller's object as it was handed in
PodGet(t, tid, k, before) ==
  /\ \E g \in {get_pod_object(adapter, t, tid, k)} :
        last' = [NoCall EXCEPT !.op = "get_pod_object", !.tid = tid, !.k = k,
                               !.before = before, !.r = g.r,
                               !.obj = IF g.set THEN g.obj ELSE before]
  /\ UNCHANGED <<adapter, written, m_db_opened, restPod>>

PodSetSerializable(t, tid, k, o, ok) ==
  /\ \E s \in {set_serializable_object(adapter, t, tid, k, o, ok)} :
        /\ adapter' = s.db
        /\ last' = [NoCall EXCEPT !.op = "set_serializable_object", !.tid = tid,
                                  !.k = k, !.r = s.r]
        /\ written' = IF s.r THEN [written EXCEPT ![tid][k] = {}] ELSE written
  /\ UNCHANGED <<m_db_opened, restPod>>

PodErase(t, tid, k, ok) ==
  /\ \E e \in {dbb_erase(adapter, t, tid, k, ok)} :
        /\ adapter' = e.db
        /\ last' = [NoCall EXCEPT !.op = "dbb_erase", !.tid = tid, !.k = k,
                                  !.r = e.r]
        /\ written' = IF e.r THEN [written EXCEPT ![tid][k] = {}] ELSE written
  /\ UNCHANGED <<m_db_opened, restPod>>

PodClear(t, tid, ok) ==
  /\ \E c \in {dbb_clear(adapter, t, tid, ok)} :
        /\ adapter' = c.db
        /\ last' = [NoCall EXCEPT !.op = "dbb_clear", !.tid = tid, !.r = c.r]
        /\ written' = IF c.r THEN [written EXCEPT ![tid] = [k \in PodKeys |-> {}]]
                             ELSE written
  /\ UNCHANGED <<m_db_opened, restPod>>

Open(t, ok) ==
  /\ \E o \in {dbb_open(m_db_opened, ok)} :
        /\ m_db_opened' = o.m_db_opened
        /\ last' = [NoCall EXCEPT !.op = "open", !.r = o.r, !.adapter_r = ok]
  /\ UNCHANGED <<adapter, written, restPod>>

Close(t, ok) ==
  /\ \E c \in {dbb_close(m_db_opened, ok)} :
        /\ m_db_opened' = c.m_db_opened
        /\ last' = [NoCall EXCEPT !.op = "close", !.r = c.r, !.adapter_r = ok]
  /\ UNCHANGED <<adapter, written, restPod>>

NextPod ==
  \/ \E t \in Threads, tid \in PodTables, k \in PodKeys, obj \in PodObjs, ok \in BOOLEAN :
       PodSet(t, tid, k, obj, ok)
  \/ \E t \in Threads, tid \in PodTables, k \in PodKeys, before \in PodObjs :
       PodGet(t, tid, k, before)
  \/ \E t \in Threads, tid \in PodTables, k \in PodKeys, o \in SerObjs, ok \in BOOLEAN :
       PodSetSerializable(t, tid, k, o, ok)
  \/ \E t \in Threads, tid \in PodTables, k \in PodKeys, ok \in BOOLEAN : PodErase(t, tid, k, ok)
  \/ \E t \in Threads, tid \in PodTables, ok \in BOOLEAN : PodClear(t, tid, ok)
  \/ \E t \in Threads, ok \in BOOLEAN : Open(t, ok)
  \/ \E t \in Threads, ok \in BOOLEAN : Close(t, ok)

SpecPod == InitPod /\ [][NextPod]_vars

\* --------------------------------- db_bridge_base: the attached set, by step
FanOutKinds == {"begin", "commit", "abort"}

\* the handler a fan-out of this kind calls on receiver c
Handler(kind, c, t) ==
  CASE kind = "begin" -> on_write_transaction_begin(c, t)
    [] kind = "commit" -> on_write_transaction_commit(c, t)
    [] kind = "abort" -> on_write_transaction_abort(c, t)

\* for (auto c : m_attached_container_receivers): the receiver the loop reads
\* after those in done, none at the end; under the lock the set does not
\* change while the loop runs
NextReceiver(recv, done) ==
  LET ord == InOrder(recv)
  IN IF done = <<>>
       THEN IF ord = <<>> THEN {} ELSE {ord[1]}
       ELSE {ord[i + 1] : i \in {j \in 1..(Len(ord) - 1) : ord[j] = done[Len(done)]}}

\* the order of attachment, after receiver a has left
Without(order, a) == SelectSeq(order, LAMBDA x : x # a)

InitLock ==
  /\ adapter = [committed |-> [tid \in Tables |-> EmptyTable],
                working |-> [tid \in Tables |-> EmptyTable],
                tx |-> [t \in Threads |-> "none"]]
  /\ m_attached_container_receivers = {}
  /\ acc = [a \in Accessors |-> NewAccessor]
  /\ last = NoCall
  /\ quiet = "none"
  /\ live = Accessors
  /\ attach_order = <<>>
  /\ InitRest

\* what the steps on the attached set leave alone
restLock == <<quiet, m_db_opened, written>>

\* begin_db_transaction up to its critical region
CallBegin(t, ro, ok) ==
  /\ fan[t].pc = "idle"
  /\ adapter' = adapter_begin_transaction(adapter, t, ro, ok).db
  /\ fan' = [fan EXCEPT ![t] = [NoFan EXCEPT !.pc = "wait", !.kind = "begin"]]
  /\ UNCHANGED <<m_attached_container_receivers, acc, last, live, attach_order,
                 m_attached_container_receivers_lock, late, restLock>>

\* commit_db_transaction up to its critical region; a failed commit throws
CallCommit(t, ok) ==
  /\ fan[t].pc = "idle"
  /\ \E c \in {adapter_commit_transaction(adapter, t, ok)} :
        /\ adapter' = c.db
        /\ fan' = IF c.r
                    THEN [fan EXCEPT ![t] = [NoFan EXCEPT !.pc = "wait", !.kind = "commit"]]
                    ELSE fan
  /\ UNCHANGED <<m_attached_container_receivers, acc, last, live, attach_order,
                 m_attached_container_receivers_lock, late, restLock>>

\* abort_db_transaction up to its critical region
CallAbort(t) ==
  /\ fan[t].pc = "idle"
  /\ adapter' = adapter_abort_transaction(adapter, t)
  /\ fan' = [fan EXCEPT ![t] = [NoFan EXCEPT !.pc = "wait", !.kind = "abort"]]
  /\ UNCHANGED <<m_attached_container_receivers, acc, last, live, attach_order,
                 m_attached_container_receivers_lock, late, restLock>>

\* CRITICAL_REGION_LOCAL(m_attached_container_receivers_lock) of a fan-out
EnterFanOut(t) ==
  /\ fan[t].pc = "wait"
  /\ fan[t].kind \in FanOutKinds
  /\ m_attached_container_receivers_lock = 0
  /\ m_attached_container_receivers_lock' = t
  /\ fan' = [fan EXCEPT ![t].pc = "locked", ![t].at_lock = m_attached_container_receivers]
  /\ UNCHANGED <<adapter, m_attached_container_receivers, acc, last, live, attach_order,
                 late, restLock>>

\* the loop reads the next receiver
FanPick(t) ==
  /\ fan[t].pc = "locked"
  /\ fan[t].kind \in FanOutKinds
  /\ fan[t].cur = 0
  /\ \E c \in NextReceiver(m_attached_container_receivers, fan[t].done) :
        fan' = [fan EXCEPT ![t].cur = c]
  /\ UNCHANGED <<adapter, m_attached_container_receivers, acc, last, live, attach_order,
                 m_attached_container_receivers_lock, late, restLock>>

\* the loop calls the handler of the receiver it has read
FanNotify(t) ==
  /\ fan[t].pc = "locked"
  /\ fan[t].kind \in FanOutKinds
  /\ fan[t].cur # 0
  /\ acc' = [acc EXCEPT ![fan[t].cur] = Handler(fan[t].kind, @, t)]
  /\ fan' = [fan EXCEPT ![t].cur = 0, ![t].done = Append(@, fan[t].cur)]
  /\ late' = (late \/ fan[t].cur \notin m_attached_container_receivers)
  /\ UNCHANGED <<adapter, m_attached_container_receivers, last, live, attach_order,
                 m_attached_container_receivers_lock, restLock>>

\* the loop is over: the critical region ends and the call returns
FanReturn(t) ==
  /\ fan[t].pc = "locked"
  /\ fan[t].kind \in FanOutKinds
  /\ fan[t].cur = 0
  /\ NextReceiver(m_attached_container_receivers, fan[t].done) = {}
  /\ m_attached_container_receivers_lock' =
       IF m_attached_container_receivers_lock = t THEN 0 ELSE m_attached_container_receivers_lock
  /\ fan' = [fan EXCEPT ![t] = NoFan]
  /\ UNCHANGED <<adapter, m_attached_container_receivers, acc, last, live, attach_order,
                 late, restLock>>

\* attach_container_receiver(receiver) is called
CallAttach(t, a) ==
  /\ fan[t].pc = "idle"
  /\ fan' = [fan EXCEPT ![t] = [NoFan EXCEPT !.pc = "wait", !.kind = "attach", !.arg = a]]
  /\ UNCHANGED <<adapter, m_attached_container_receivers, acc, last, live, attach_order,
                 m_attached_container_receivers_lock, late, restLock>>

\* CRITICAL_REGION_LOCAL(m_attached_container_receivers_lock) of attach
EnterAttach(t) ==
  /\ fan[t].pc = "wait"
  /\ fan[t].kind = "attach"
  /\ m_attached_container_receivers_lock = 0
  /\ m_attached_container_receivers_lock' = t
  /\ fan' = [fan EXCEPT ![t].pc = "locked", ![t].at_lock = m_attached_container_receivers]
  /\ UNCHANGED <<adapter, m_attached_container_receivers, acc, last, live, attach_order,
                 late, restLock>>

\* the insert and its check; the critical region ends as the call returns or throws
AttachBody(t) ==
  /\ fan[t].pc = "locked"
  /\ fan[t].kind = "attach"
  /\ \E r \in {attach_container_receiver(m_attached_container_receivers, fan[t].arg)} :
        /\ m_attached_container_receivers' = r.recv
        /\ attach_order' = IF r.status = "ok" THEN Append(attach_order, fan[t].arg)
                                              ELSE attach_order
        /\ last' = [NoCall EXCEPT !.op = "attach_container_receiver", !.a = fan[t].arg,
                                  !.status = r.status]
  /\ m_attached_container_receivers_lock' =
       IF m_attached_container_receivers_lock = t THEN 0 ELSE m_attached_container_receivers_lock
  /\ fan' = [fan EXCEPT ![t] = NoFan]
  /\ UNCHANGED <<adapter, acc, live, late, restLock>>

\* detach_container_receiver(receiver) is called
CallDetach(t, a) ==
  /\ fan[t].pc = "idle"
  /\ fan' = [fan EXCEPT ![t] = [NoFan EXCEPT !.pc = "wait", !.kind = "detach", !.arg = a]]
  /\ UNCHANGED <<adapter, m_attached_container_receivers, acc, last, live, attach_order,
                 m_attached_container_receivers_lock, late, restLock>>

EnterDetach_without_lock(t) ==
  /\ fan[t].pc = "wait"
  /\ fan[t].kind = "detach"
  /\ fan' = [fan EXCEPT ![t].pc = "locked", ![t].at_lock = m_attached_container_receivers]
  /\ UNCHANGED <<adapter, m_attached_container_receivers, acc, last, live, attach_order,
                 m_attached_container_receivers_lock, late, restLock>>

\* CRITICAL_REGION_LOCAL(m_attached_container_receivers_lock) of detach
EnterDetach(t) ==
  /\ fan[t].pc = "wait"
  /\ fan[t].kind = "detach"
  /\ m_attached_container_receivers_lock = 0
  /\ m_attached_container_receivers_lock' = t
  /\ fan' = [fan EXCEPT ![t].pc = "locked", ![t].at_lock = m_attached_container_receivers]
  /\ UNCHANGED <<adapter, m_attached_container_receivers, acc, last, live, attach_order,
                 late, restLock>>

\* the erase and its check; the critical region ends as the call returns or throws
DetachBody(t) ==
  /\ fan[t].pc = "locked"
  /\ fan[t].kind = "detach"
  /\ \E r \in {detach_container_receiver(m_attached_container_receivers, fan[t].arg)} :
        /\ m_attached_container_receivers' = r.recv
        /\ attach_order' = Without(attach_order, fan[t].arg)
        /\ last' = [NoCall EXCEPT !.op = "detach_container_receiver", !.a = fan[t].arg,
                                  !.status = r.status]
  /\ m_attached_container_receivers_lock' =
       IF m_attached_container_receivers_lock = t THEN 0 ELSE m_attached_container_receivers_lock
  /\ fan' = [fan EXCEPT ![t] = NoFan]
  /\ UNCHANGED <<adapter, acc, live, late, restLock>>

FanOutSteps ==
  \/ \E t \in Threads, ro \in BOOLEAN, ok \in BOOLEAN : CallBegin(t, ro, ok)
  \/ \E t \in Threads, ok \in BOOLEAN : CallCommit(t, ok)
  \/ \E t \in Threads : CallAbort(t)
  \/ \E t \in Threads : EnterFanOut(t)
  \/ \E t \in Threads : FanPick(t)
  \/ \E t \in Threads : FanNotify(t)
  \/ \E t \in Threads : FanReturn(t)

NextLock ==
  \/ FanOutSteps
  \/ \E t \in Threads, a \in Accessors : CallAttach(t, a)
  \/ \E t \in Threads : EnterAttach(t)
  \/ \E t \in Threads : AttachBody(t)
  \/ \E t \in Threads, a \in Accessors : CallDetach(t, a)
  \/ \E t \in Threads : EnterDetach(t)
  \/ \E t \in Threads : DetachBody(t)

SpecLock == InitLock /\ [][NextLock]_vars

\* ------------------------------- key_value_accessor_base: lifetime of an accessor
\* the constructor attaches the new accessor to its broker
accessor_ctor(recv, a) == attach_container_receiver(recv, a)

accessor_dtor_without_detach(recv, a) == [recv |-> recv, status |-> "ok"]

\* the destructor detaches it (the source spells the call
\* dettach_container_receiver)
accessor_dtor(recv, a) == detach_container_receiver(recv, a)

InitLife ==
  /\ adapter = [committed |-> [tid \in Tables |-> EmptyTable],
                working |-> [tid \in Tables |-> EmptyTable],
                tx |-> [t \in Threads |-> "none"]]
  /\ m_attached_container_receivers = {}
  /\ acc = [a \in Accessors |-> NewAccessor]
  /\ last = NoCall
  /\ quiet = "none"
  /\ live = {}
  /\ attach_order = <<>>
  /\ InitRest

\* thread t constructs an accessor at address a; the attach waits for the lock
Construct(t, a) ==
  /\ fan[t].pc = "idle"
  /\ a \notin live
  /\ m_attached_container_receivers_lock = 0
  /\ \E c \in {accessor_ctor(m_attached_container_receivers, a)} :
        /\ m_attached_container_receivers' = c.recv
        /\ live' = IF c.status = "ok" THEN live \cup {a} ELSE live
        /\ attach_order' = IF c.status = "ok" THEN Append(attach_order, a) ELSE attach_order
        /\ last' = [NoCall EXCEPT !.op = "key_value_accessor_base", !.a = a,
                                  !.status = c.status]
  /\ acc' = [acc EXCEPT ![a] = NewAccessor]
  /\ UNCHANGED <<adapter, m_attached_container_receivers_lock, fan, late, restLock>>

\* thread t destroys the accessor at address a; the detach waits for the lock
Destruct(t, a) ==
  /\ fan[t].pc = "idle"
  /\ a \in live
  /\ m_attached_container_receivers_lock = 0
  /\ \E d \in {accessor_dtor(m_attached_container_receivers, a)} :
        /\ m_attached_container_receivers' = d.recv
        /\ last' = [NoCall EXCEPT !.op = "~key_value_accessor_base", !.a = a,
                                  !.status = d.status]
  /\ live' = live \ {a}
  /\ attach_order' = Without(attach_order, a)
  /\ UNCHANGED <<adapter, acc, m_attached_container_receivers_lock, fan, late, restLock>>

NextLife ==
  \/ FanOutSteps
  \/ \E t \in Threads, a \in Accessors : Construct(t, a)
  \/ \E t \in Threads, a \in Accessors : Destruct(t, a)

SpecLife == InitLife /\ [][NextLife]_vars

\* ------------------------------------------------------------- properties
AbortCalls == {"abort_db_transaction", "abort_transaction"}

CommitCalls == {"commit_db_transaction", "commit_transaction"}

BeginCalls == {"begin_db_transaction", "begin_transaction"}

MutatingCalls == {"set", "erase", "erase_validate", "clear"}

CacheValid(a) == acc[a].m_cached_size_is_valid

InExclusiveMode(a, t) == t \in acc[a].m_exclusive_runner

\* the number of entries the table of accessor a holds, whoever looks
CommittedSize(a) == Cardinality(DOMAIN adapter.committed[acc[a].m_tid])

\* C1: after the broker's abort_transaction has returned, whoever issued it,
\* every attached accessor's size cache is invalid.
C1_AbortInvalidatesEveryCache ==
  last.op \in AbortCalls =>
    \A a \in m_attached_container_receivers : ~CacheValid(a)

\* C2: after a successful broker commit every attached accessor has the
\* committing thread's exclusive marker cleared and its size cache invalid.
C2_CommitClearsMarkerAndCache ==
  (last.op \in CommitCalls /\ last.status = "ok") =>
    \A a \in m_attached_container_receivers :
      ~InExclusiveMode(a, last.t) /\ ~CacheValid(a)

\* C3: after a write transaction was aborted and before the next mutation,
\* size() returns the number of entries the table had before the transaction
\* began (get() yields nullptr in every state: pod_object_value_helper::get).
C3_SizeAfterAbortIsPreTransaction ==
  (quiet = "abort" /\ last.op = "size") => last.ret = CommittedSize(last.a)

\* C4: after a write transaction was committed and before the next mutation,
\* size() equals size_no_cache(), also inside a later transaction.
C4_SizeAfterCommitIsUncached ==
  (quiet = "commit" /\ last.op = "size") =>
    last.ret = size_no_cache(acc[last.a], adapter, last.t)

\* C5: a mutating accessor call (set, erase, erase_validate, clear) leaves
\* that accessor's size cache invalid, so the next size() on it, by any
\* thread, queries the adapter and returns the adapter's count.
C5_MutationInvalidatesCache ==
  last.op \in MutatingCalls =>
    /\ ~CacheValid(last.a)
    /\ \A t \in Threads :
         /\ size(acc[last.a], adapter, t).calls = 1
         /\ size(acc[last.a], adapter, t).ret =
              adapter_get_table_size(adapter, t, acc[last.a].m_tid)

C5_Witness ==
  /\ last.op \in MutatingCalls
  /\ \E t \in Threads : InExclusiveMode(last.a, t)
  /\ ~CacheValid(last.a)

\* C6: a thread is in exclusive mode for an accessor only while it holds the
\* open write transaction.
C6_ExclusiveOnlyInWriteTransaction ==
  \A a \in m_attached_container_receivers, t \in Threads :
    InExclusiveMode(a, t) => adapter.tx[t] = "rw"

\* C7: size() returns the cached count without an adapter call exactly when
\* the caller is in exclusive mode and the cache is valid; otherwise it
\* returns the adapter's count, and stores it and marks the cache valid only
\* when the caller is in exclusive mode.
C7_SizeFastPath ==
  [][last'.op = "size" =>
       LET t == last'.t
           a == last'.a
           hit == InExclusiveMode(a, t) /\ CacheValid(a)
       IN /\ (last'.calls = 0) <=> hit
          /\ hit => /\ last'.ret = acc[a].m_cached_size
                    /\ acc' = acc
          /\ ~hit => /\ last'.calls = 1
                     /\ last'.ret = adapter_get_table_size(adapter, t, acc[a].m_tid)
                     /\ IF InExclusiveMode(a, t)
                          THEN acc' = [acc EXCEPT ![a].m_cached_size = last'.ret,
                                                  ![a].m_cached_size_is_valid = TRUE]
                          ELSE acc' = acc]_vars

\* the fast path was taken: a cached count was returned without a query
C7_Witness == last.op = "size" /\ last.calls = 0 /\ last.ret > 0

\* C8: with one thread inside a write transaction and another outside any
\* transaction, every size() returns the count the adapter reports to the
\* caller, and the thread outside touches neither the cached size nor its flag.
C8_ConcurrentSizeIsAdapterConsistent ==
  (last.op = "size" /\ WriterOpen(adapter) /\ adapter.tx[last.t] \in {"rw", "none"}) =>
    /\ last.ret = adapter_get_table_size(adapter, last.t, acc[last.a].m_tid)
    /\ adapter.tx[last.t] = "none" => ~last.touched

\* C9: the broker's begin calls the adapter's begin once, notifies every
\* attached accessor whatever the adapter returned, and returns the
\* adapter's result (the adapter returns true exactly when it opened a
\* transaction for the caller).
C9_BeginNotifiesRegardless ==
  [][last'.op \in BeginCalls =>
       /\ last'.calls = 1
       /\ last'.r <=> (adapter.tx[last'.t] = "none" /\ adapter'.tx[last'.t] # "none")
       /\ last'.notified = InOrder(m_attached_container_receivers)
       /\ acc' = [a \in Accessors |->
                   IF a \in m_attached_container_receivers
                     THEN [acc[a] EXCEPT !.m_exclusive_runner = @ \cup {last'.t}]
                     ELSE acc[a]]]_vars

\* the adapter refused the begin and the accessors were notified all the same
C9_Witness ==
  /\ last.op = "begin_db_transaction"
  /\ ~last.r
  /\ adapter.tx[last.t] = "none"
  /\ m_attached_container_receivers # {}
  /\ \A a \in m_attached_container_receivers : InExclusiveMode(a, last.t)

\* C10: the broker's commit notifies every attached accessor if and only if
\* the adapter's commit returned true (the adapter returns true exactly when
\* it ended the caller's transaction); when it failed the broker raises and
\* every accessor's exclusive marker and cache fields stay as they were.
C10_CommitNotifiesOnlyOnSuccess ==
  [][last'.op = "commit_db_transaction" =>
       LET t == last'.t
           committed == adapter.tx[t] # "none" /\ adapter'.tx[t] = "none"
       IN /\ last'.calls = 1
          /\ (last'.status = "ok") <=> committed
          /\ committed =>
               /\ last'.notified = InOrder(m_attached_container_receivers)
               /\ acc' = [a \in Accessors |->
                           IF a \in m_attached_container_receivers
                             THEN [acc[a] EXCEPT !.m_exclusive_runner = @ \ {t}]
                             ELSE acc[a]]
          /\ ~committed =>
               /\ last'.status = "throw"
               /\ last'.notified = <<>>
               /\ acc' = acc]_vars

\* the commit failed while an accessor held the marker and a valid cache
C10_Witness ==
  /\ last.op = "commit_db_transaction"
  /\ last.status = "throw"
  /\ \E a \in m_attached_container_receivers :
       InExclusiveMode(a, last.t) /\ CacheValid(a)

\* the places in the events of the last call where e happened to receiver a
EventsAt(e, a) == {i \in 1..Len(last.events) : last.events[i] = [e |-> e, a |-> a]}

\* C11: the broker's abort calls the adapter's abort exactly once, only then
\* notifies every attached accessor exactly once, and reports no failure.
C11_AbortCallsAdapterThenNotifiesAll ==
  last.op \in AbortCalls =>
    /\ last.status = "ok"
    /\ last.calls = 1
    /\ Cardinality(EventsAt("abort_transaction", 0)) = 1
    /\ adapter.tx[last.t] = "none"
    /\ \A a \in Accessors :
         IF a \in m_attached_container_receivers
           THEN /\ Cardinality(EventsAt("notify", a)) = 1
                /\ \A i \in EventsAt("notify", a), j \in EventsAt("abort_transaction", 0) : j < i
                /\ ~InExclusiveMode(a, last.t)
           ELSE EventsAt("notify", a) = {}

\* a write transaction was aborted through the broker and every accessor told
C11_Witness ==
  /\ last.op = "abort_db_transaction"
  /\ quiet = "abort"
  /\ Len(last.events) = 1 + Cardinality(m_attached_container_receivers)
  /\ m_attached_container_receivers # {}

\* C14: erase_validate(k) returns true exactly when k was in the table right
\* before the call, leaves the size of a table without k unchanged, and k is
\* not in the table afterwards.
C14_EraseValidateReportsPresence ==
  [][last'.op = "erase_validate" =>
       LET t == last'.t
           tid == acc[last'.a].m_tid
           present == last'.k \in DOMAIN View(adapter, t)[tid]
       IN /\ last'.r <=> present
          /\ ~present => adapter_get_table_size(adapter', t, tid)
                           = adapter_get_table_size(adapter, t, tid)
          /\ last'.k \notin DOMAIN View(adapter', t)[tid]]_vars

\* C20: the accessor's commit_transaction raises exactly as the broker's
\* commit does and then leaves its size cache invalid; its abort_transaction
\* invalidates the cache before anything the broker's abort does.
C20_FailurePathsInvalidateCache ==
  [][/\ last'.op = "commit_transaction" =>
          \E ok \in BOOLEAN :
            \E c \in {commit_db_transaction(adapter, m_attached_container_receivers,
                                            acc, last'.t, ok)} :
               /\ adapter' = c.db
               /\ last'.status = c.status
               /\ c.status = "throw" => ~acc'[last'.a].m_cached_size_is_valid
     /\ last'.op = "abort_transaction" =>
          /\ ~acc'[last'.a].m_cached_size_is_valid
          /\ last'.events[1] = [e |-> "invalidate", a |-> last'.a]
          /\ \A i \in 2..Len(last'.events) : last'.events[i].e # "invalidate"
          /\ Len(last'.events) > 1]_vars

\* an accessor's commit failed inside its write transaction, after its size
\* had been cached
C20_Witness ==
  /\ last.op = "commit_transaction"
  /\ last.status = "throw"
  /\ adapter.tx[last.t] = "rw"
  /\ InExclusiveMode(last.a, last.t)
  /\ acc[last.a].m_cached_size > 0
  /\ ~CacheValid(last.a)

\* C15: get_pod_object returns true exactly when the key is present and the
\* stored buffer has the object's fixed size; otherwise it returns false,
\* raises nothing and leaves the caller's object as it was.
C15_GetPodChecksPresenceAndSize ==
  last.op = "get_pod_object" =>
    \A t \in Threads :
      LET tbl == View(adapter, t)[last.tid]
          fits == last.k \in DOMAIN tbl /\ Len(tbl[last.k]) = PodSize
      IN /\ last.r <=> fits
         /\ last.status = "ok"
         /\ ~fits => last.obj = last.before
         /\ fits => <<last.obj>> = tbl[last.k]

\* a read of a key whose stored buffer is longer than the fixed size
C15_Witness ==
  /\ last.op = "get_pod_object"
  /\ last.k \in DOMAIN adapter.committed[last.tid]
  /\ Len(adapter.committed[last.tid][last.k]) > PodSize
  /\ ~last.r
  /\ last.before = MaxPodByte

\* C16: while the object a successful set_pod_object stored under a key
\* still stands, get_pod_object on that key yields true and that object; the
\* set leaves every other key and every other table as they were.
C16_PodRoundTrip ==
  /\ [](\A t \in Threads, tid \in PodTables, k \in PodKeys :
          \A v \in written[tid][k] :
            LET g == get_pod_object(adapter, t, tid, k)
            IN g.r /\ g.set /\ g.obj = v)
  /\ [][last'.op = "set_pod_object" =>
          \A tid \in PodTables, k \in PodKeys :
            <<tid, k>> # <<last'.tid, last'.k>> =>
              /\ (k \in DOMAIN adapter'.committed[tid]) <=> (k \in DOMAIN adapter.committed[tid])
              /\ k \in DOMAIN adapter.committed[tid] =>
                   adapter'.committed[tid][k] = adapter.committed[tid][k]]_vars

\* the largest object was stored and read back beside an entry of another key
C16_Witness ==
  /\ last.op = "get_pod_object"
  /\ last.r
  /\ last.obj = MaxPodByte
  /\ last.before # MaxPodByte
  /\ written[last.tid][last.k] = {MaxPodByte}
  /\ \E k \in PodKeys \ {last.k} : k \in DOMAIN adapter.committed[last.tid]

\* C17: is_open() is the adapter's answer to the latest open, false after
\* the latest close whatever the adapter's close gave, and no other call
\* changes it.
C17_IsOpenFollowsLastOpenClose ==
  [][/\ last'.op = "open" => is_open(m_db_opened') = last'.adapter_r
     /\ last'.op = "close" => ~is_open(m_db_opened')
     /\ last'.op \notin {"open", "close"} => is_open(m_db_opened') = is_open(m_db_opened)]_vars

\* a close refused by the adapter, on a broker that had been opened
C17_Witness ==
  /\ last.op = "close"
  /\ ~last.adapter_r
  /\ ~is_open(m_db_opened)
  /\ \E tid \in PodTables : adapter.committed[tid] # EmptyTable

\* the receivers of a sequence
Range(seq) == {seq[i] : i \in 1..Len(seq)}

\* a fan-out of thread t holds the lock
InFanOut(t) == fan[t].pc = "locked" /\ fan[t].kind \in FanOutKinds

\* C12: attaching an attached receiver faults and leaves the set as it was,
\* detaching a receiver that is not attached faults and leaves the set as it
\* was, and attaching an absent receiver then detaching it gives the set back.
C12_AttachDetachFaults ==
  /\ [][\A t \in Threads :
          fan[t].pc = "locked" /\ fan'[t].pc = "idle" =>
            LET a == fan[t].arg
                was == a \in m_attached_container_receivers
            IN /\ fan[t].kind = "attach" =>
                    /\ last'.status = (IF was THEN "throw" ELSE "ok")
                    /\ was => m_attached_container_receivers' = m_attached_container_receivers
                    /\ a \in m_attached_container_receivers'
               /\ fan[t].kind = "detach" =>
                    /\ last'.status = (IF was THEN "ok" ELSE "throw")
                    /\ ~was => m_attached_container_receivers' = m_attached_container_receivers
                    /\ a \notin m_attached_container_receivers']_vars
  /\ [](\A a \in Accessors \ m_attached_container_receivers :
          LET at == attach_container_receiver(m_attached_container_receivers, a)
              de == detach_container_receiver(at.recv, a)
          IN at.status = "ok" /\ de.status = "ok"
             /\ de.recv = m_attached_container_receivers)

\* an attach of an attached receiver has faulted beside another attached one
C12_Witness ==
  /\ last.op = "attach_container_receiver"
  /\ last.status = "throw"
  /\ last.a \in m_attached_container_receivers
  /\ m_attached_container_receivers # {last.a}

\* C13: the attached set is the set of live accessors, and neither the
\* constructor nor the destructor faults.
C13_AttachedIsLive ==
  /\ m_attached_container_receivers = live
  /\ last.status = "ok"

\* an accessor was destroyed while another stays attached, a fan-out under way
C13_Witness ==
  /\ last.op = "~key_value_accessor_base"
  /\ live # {}
  /\ \E t \in Threads : fan[t].pc = "wait"

\* C18: attach, detach and the fan-outs exclude one another; the attached set
\* stays as it was when the lock was taken; a fan-out notifies only receivers
\* attached then, none twice, and all of them by the time its loop ends; no
\* receiver is notified once it is detached.
C18_FanOutUnderLock ==
  /\ \A t, u \in Threads : fan[t].pc = "locked" /\ fan[u].pc = "locked" => t = u
  /\ \A t \in Threads :
       fan[t].pc = "locked" =>
         /\ m_attached_container_receivers_lock = t
         /\ fan[t].at_lock = m_attached_container_receivers
  /\ \A t \in Threads :
       InFanOut(t) =>
         /\ Range(fan[t].done) \subseteq fan[t].at_lock
         /\ Cardinality(Range(fan[t].done)) = Len(fan[t].done)
         /\ fan[t].cur # 0 => fan[t].cur \in fan[t].at_lock \ Range(fan[t].done)
         /\ (fan[t].cur = 0 /\ NextReceiver(m_attached_container_receivers, fan[t].done) = {})
              => Range(fan[t].done) = fan[t].at_lock
  /\ ~late

\* a detach waits at the lock for a fan-out that has notified the receiver it
\* is to detach and has another still to notify
C18_Witness ==
  \E t, u \in Threads :
    /\ InFanOut(t)
    /\ fan[u].pc = "wait"
    /\ fan[u].kind = "detach"
    /\ fan[u].arg \in Range(fan[t].done)
    /\ fan[t].cur # 0

\* the place of receiver a in the order of attachment
AttachedAt(a) == CHOOSE i \in 1..Len(attach_order) : attach_order[i] = a

\* C19: a fan-out notifies the attached accessors in the order in which they
\* were attached.
C19_NotifiedInAttachOrder ==
  \A t \in Threads :
    InFanOut(t) =>
      \A i, j \in 1..Len(fan[t].done) :
        i < j => AttachedAt(fan[t].done[i]) < AttachedAt(fan[t].done[j])

\* C19 as amended: a fan-out notifies the attached accessors in ascending
\* order of their addresses (the order of the std::set), whatever the order
\* in which they were attached.
C19_NotifiedInAddressOrder ==
  \A t \in Threads :
    InFanOut(t) =>
      /\ \A i, j \in 1..Len(fan[t].done) : i < j => fan[t].done[i] < fan[t].done[j]
      /\ \A a \in fan[t].at_lock \ Range(fan[t].done) :
           \A i \in 1..Len(fan[t].done) : fan[t].done[i] < a

\* a fan-out has notified every receiver, the one attached last first
C19_Witness ==
  \E t \in Threads :
    /\ InFanOut(t)
    /\ Len(fan[t].done) = NumAccessors
    /\ fan[t].done # attach_order

====
